---- MODULE Spec2Model ----
(***************************************************************************)
(* Model of app.py: the plate checker.  A Flask front end (start, stop)    *)
(* controls background runner_loop threads that walk the two-letter codes, *)
(* fetch a page per code, classify it with parse_status, append one JSON   *)
(* line per probe to DATA_FILE and publish progress in the shared `state`  *)
(* dictionary.  Strings are sequences of one-character strings, so that    *)
(* substring tests, slicing, JSON escaping and line splitting are computed *)
(* character by character as the program computes them.                   *)
(***************************************************************************)
EXTENDS Integers, Sequences, FiniteSets, Bags, TLC

(***************************************************************************)
(* Bounds of the model.                                                    *)
(***************************************************************************)
\* how many letters of the alphabet the generator uses (the program: 26)
NumLetters == 2
\* how many runner_loop threads can be alive at the same time
MaxThreads == 2
\* how many records the result file can hold before no new probe is begun
MaxFile == 3
\* how many note characters the store specification writes in all
MaxNoteChars == 2
\* how many records the byte-by-byte write specification appends
MaxTorn == 2
\* how many pieces the pages of the classifier specification are made of
MaxChunks == 3

(***************************************************************************)
(* Program constants.                                                      *)
(***************************************************************************)
SLEEP_SECONDS == 60
BLOCK_SLEEP == 150
SNIPPET_LEN == 200

UPPERCASE ==
    <<"A", "B", "C", "D", "E", "F", "G", "H", "I", "J", "K", "L", "M", "N", "O", "P", "Q", "R", "S", "T", "U", "V", "W", "X", "Y", "Z">>
LOWERCASE ==
    <<"a", "b", "c", "d", "e", "f", "g", "h", "i", "j", "k", "l", "m", "n", "o", "p", "q", "r", "s", "t", "u", "v", "w", "x", "y", "z">>
ERROR_MARK ==
    <<"_", "_", "E", "R", "R", "O", "R", "_", "_">>
MAX_ATTEMPTS_MSG ==
    <<"Y", "o", "u", " ", "h", "a", "v", "e", " ", "r", "e", "a", "c", "h", "e", "d", " ", "t", "h", "e", " ", "m", "a", "x", "i", "m", "u", "m", " ", "p", "l", "a", "t", "e", " ", "p", "r", "e", "v", "i", "e", "w", " ", "a", "t", "t", "e", "m", "p", "t", "s">>
ISSUED_MSG ==
    <<"P", "l", "a", "t", "e", " ", "i", "s", " ", "i", "s", "s", "u", "e", "d">>
AVAILABLE_WORD ==
    <<"a", "v", "a", "i", "l", "a", "b", "l", "e">>
RATE_LIMITED ==
    <<"r", "a", "t", "e", "-", "l", "i", "m", "i", "t", "e", "d">>
\* the status vocabulary
issued ==
    <<"i", "s", "s", "u", "e", "d">>
available ==
    <<"a", "v", "a", "i", "l", "a", "b", "l", "e">>
blocked ==
    <<"b", "l", "o", "c", "k", "e", "d">>
error ==
    <<"e", "r", "r", "o", "r">>
unknown ==
    <<"u", "n", "k", "n", "o", "w", "n">>
\* the text json.dumps writes around the four values of a record
KEY_PLATE ==
    <<"{", "\"", "p", "l", "a", "t", "e", "\"", ":", " ", "\"">>
KEY_STATUS ==
    <<"\"", ",", " ", "\"", "s", "t", "a", "t", "u", "s", "\"", ":", " ", "\"">>
KEY_NOTE ==
    <<"\"", ",", " ", "\"", "n", "o", "t", "e", "\"", ":", " ", "\"">>
KEY_CHECKED_AT ==
    <<"\"", ",", " ", "\"", "c", "h", "e", "c", "k", "e", "d", "_", "a", "t", "\"", ":", " ", "\"">>
CLOSE_OBJ ==
    <<"\"", "}">>
\* datetime.now().isoformat(timespec="seconds"): the wall clock is not
\* modelled, every reading gives the same text
NowIso ==
    <<"T">>
\* Python's None
None == <<>>
Some(v) == <<v>>

(***************************************************************************)
(* Text helpers: str.startswith, the `in` operator, str.lower, slicing.    *)
(***************************************************************************)
Min(a, b) == IF a < b THEN a ELSE b
Max(a, b) == IF a > b THEN a ELSE b

StartsWith(text, prefix) ==
    /\ Len(text) >= Len(prefix)
    /\ SubSeq(text, 1, Len(prefix)) = prefix

Contains(text, pat) ==
    \/ pat = <<>>
    \/ \E i \in 1..(Len(text) - Len(pat) + 1) :
          text[i] = pat[1] /\ SubSeq(text, i, i + Len(pat) - 1) = pat

LowerChar(c) ==
    IF \E k \in 1..Len(UPPERCASE) : UPPERCASE[k] = c
    THEN LOWERCASE[CHOOSE k \in 1..Len(UPPERCASE) : UPPERCASE[k] = c]
    ELSE c

Lower(text) == [i \in 1..Len(text) |-> LowerChar(text[i])]

\* text[:n] for n >= 0
Prefix(text, n) == SubSeq(text, 1, Min(n, Len(text)))

Reverse(s) == [i \in 1..Len(s) |-> s[Len(s) + 1 - i]]

(***************************************************************************)
(* generate_combinations: [a + b for a in letters for b in letters].       *)
(***************************************************************************)
letters == SubSeq(UPPERCASE, 1, NumLetters)

Combinations(ls) ==
    [k \in 1..(Len(ls) * Len(ls)) |->
        <<ls[((k - 1) \div Len(ls)) + 1], ls[((k - 1) % Len(ls)) + 1]>>]

generate_combinations == Combinations(letters)

(***************************************************************************)
(* parse_status: raw text to <<status, note>>, first matching rule wins.   *)
(***************************************************************************)
\* parse_status with the issued rule tried before the blocked rule
parse_status_issued_first(response_text) ==
    IF StartsWith(response_text, ERROR_MARK) THEN <<error, response_text>>
    ELSE IF Contains(response_text, ISSUED_MSG) THEN <<issued, <<>>>>
    ELSE IF Contains(response_text, MAX_ATTEMPTS_MSG) THEN <<blocked, RATE_LIMITED>>
    ELSE IF Contains(Lower(response_text), AVAILABLE_WORD) THEN <<available, <<>>>>
    ELSE <<unknown, Prefix(response_text, SNIPPET_LEN)>>

parse_status(response_text) ==
    IF StartsWith(response_text, ERROR_MARK) THEN <<error, response_text>>
    ELSE IF Contains(response_text, MAX_ATTEMPTS_MSG) THEN <<blocked, RATE_LIMITED>>
    ELSE IF Contains(response_text, ISSUED_MSG) THEN <<issued, <<>>>>
    ELSE IF Contains(Lower(response_text), AVAILABLE_WORD) THEN <<available, <<>>>>
    ELSE <<unknown, Prefix(response_text, SNIPPET_LEN)>>

(***************************************************************************)
(* The result store: save_result writes json.dumps(record) + "\n" at the   *)
(* end of the file, load_results reads the file line by line.              *)
(***************************************************************************)
Record(plate, status, note, checked_at) ==
    [plate |-> plate, status |-> status, note |-> note, checked_at |-> checked_at]

\* json.dumps of one character of a string (ensure_ascii=False)
EscapeChar(c) ==
    IF c = "\"" THEN <<"\\", "\"">>
    ELSE IF c = "\\" THEN <<"\\", "\\">>
    ELSE IF c = "\n" THEN <<"\\", "n">>
    ELSE IF c = "\t" THEN <<"\\", "t">>
    ELSE <<c>>

\* the concatenation of json.dumps' output for the characters lo..hi of s
RECURSIVE EscapeRange(_, _, _)
EscapeRange(s, lo, hi) ==
    IF lo > hi THEN <<>>
    ELSE IF lo = hi THEN EscapeChar(s[lo])
    ELSE LET mid == (lo + hi) \div 2 IN
         EscapeRange(s, lo, mid) \o EscapeRange(s, mid + 1, hi)

\* the inside of a JSON string literal
EscapeString(s) == EscapeRange(s, 1, Len(s))

json_dumps(record) ==
    KEY_PLATE \o EscapeString(record.plate)
        \o KEY_STATUS \o EscapeString(record.status)
        \o KEY_NOTE \o EscapeString(record.note)
        \o KEY_CHECKED_AT \o EscapeString(record.checked_at)
        \o CLOSE_OBJ

(***************************************************************************)
(* open(DATA_FILE, ..., encoding="utf-8"): the file holds bytes.  An ASCII *)
(* character is one byte, written here as the character itself; E_ACUTE    *)
(* stands for the characters that take more than one byte: 0xC3 0xA9.      *)
(***************************************************************************)
E_ACUTE == "U+00E9"
BYTE_C3 == "0xC3"
BYTE_A9 == "0xA9"

EncodeChar(c) == IF c = E_ACUTE THEN <<BYTE_C3, BYTE_A9>> ELSE <<c>>

RECURSIVE EncodeRange(_, _, _)
EncodeRange(s, lo, hi) ==
    IF lo > hi THEN <<>>
    ELSE IF lo = hi THEN EncodeChar(s[lo])
    ELSE LET mid == (lo + hi) \div 2 IN
         EncodeRange(s, lo, mid) \o EncodeRange(s, mid + 1, hi)

\* what the text layer of the file object writes for a text
utf8_encode(text) ==
    IF \A i \in 1..Len(text) : text[i] # E_ACUTE THEN text
    ELSE EncodeRange(text, 1, Len(text))

\* The strict decoder of the text layer raises UnicodeDecodeError for a lead
\* byte that its continuation byte does not follow (also at the end of the
\* file: "unexpected end of data") and for a continuation byte without lead.
UnicodeDecodeError(bytes) ==
    \E i \in 1..Len(bytes) :
        \/ bytes[i] = BYTE_C3 /\ (i = Len(bytes) \/ bytes[i + 1] # BYTE_A9)
        \/ bytes[i] = BYTE_A9 /\ (i = 1 \/ bytes[i - 1] # BYTE_C3)

DecodeByte(b) ==
    IF b = BYTE_C3 THEN <<E_ACUTE>> ELSE IF b = BYTE_A9 THEN <<>> ELSE <<b>>

RECURSIVE DecodeBytes(_, _, _)
DecodeBytes(bytes, lo, hi) ==
    IF lo > hi THEN <<>>
    ELSE IF lo = hi THEN DecodeByte(bytes[lo])
    ELSE LET mid == (lo + hi) \div 2 IN
         DecodeBytes(bytes, lo, mid) \o DecodeBytes(bytes, mid + 1, hi)

\* the text the file object reads from bytes that decode
utf8_decode(bytes) ==
    IF \A i \in 1..Len(bytes) : bytes[i] # BYTE_C3 /\ bytes[i] # BYTE_A9 THEN bytes
    ELSE DecodeBytes(bytes, 1, Len(bytes))

\* the bytes f.write(json.dumps(record, ensure_ascii=False) + "\n") adds
LineOf(record) == utf8_encode(json_dumps(record) \o <<"\n">>)

\* the file after save_result(plate, status, note)
save_result(f, plate, status, note) ==
    f \o LineOf(Record(plate, status, note, NowIso))

\* the character an escape sequence \c stands for; <<>> when there is none
UnescapeChar(c) ==
    IF c = "\"" THEN <<"\"">>
    ELSE IF c = "\\" THEN <<"\\">>
    ELSE IF c = "n" THEN <<"\n">>
    ELSE IF c = "t" THEN <<"\t">>
    ELSE <<>>

\* The JSON scanner inside a string literal that starts at position i.
\* A character is escaped when an odd number of backslashes precedes it.
RECURSIVE BackslashesBefore(_, _, _)
BackslashesBefore(s, i, j) ==
    IF j - 1 < i \/ s[j - 1] # "\\" THEN 0 ELSE 1 + BackslashesBefore(s, i, j - 1)
IsEscaped(s, i, j) == BackslashesBefore(s, i, j) % 2 = 1

\* what the character at position p of the literal contributes to the value
DecodedAt(s, i, p) ==
    IF IsEscaped(s, i, p) THEN UnescapeChar(s[p])
    ELSE IF s[p] = "\\" THEN <<>>
    ELSE <<s[p]>>

RECURSIVE DecodeRange(_, _, _, _)
DecodeRange(s, i, lo, hi) ==
    IF lo > hi THEN <<>>
    ELSE IF lo = hi THEN DecodedAt(s, i, lo)
    ELSE LET mid == (lo + hi) \div 2 IN
         DecodeRange(s, i, lo, mid) \o DecodeRange(s, i, mid + 1, hi)

\* Reads a string literal's inside from position i up to its closing quote.
\* end is the position of the closing quote; ok is FALSE when the literal
\* is not closed, holds a raw control character or a bad escape.
ParseString(s, i) ==
    LET quotes == {j \in i..Len(s) : s[j] = "\"" /\ ~IsEscaped(s, i, j)} IN
    IF quotes = {} THEN [ok |-> FALSE, val |-> <<>>, end |-> Len(s) + 1]
    ELSE LET end == CHOOSE j \in quotes : \A k \in quotes : j <= k
             bad == {p \in i..(end - 1) :
                        IF IsEscaped(s, i, p) THEN UnescapeChar(s[p]) = <<>>
                        ELSE s[p] = "\n" \/ s[p] = "\t"}
         IN IF bad # {} THEN [ok |-> FALSE, val |-> <<>>, end |-> end]
            ELSE [ok |-> TRUE, val |-> DecodeRange(s, i, i, end - 1), end |-> end]

Matches(s, i, chunk) ==
    /\ i + Len(chunk) - 1 <= Len(s)
    /\ SubSeq(s, i, i + Len(chunk) - 1) = chunk

\* json.loads on a line of the file: <<record>>, or <<>> for JSONDecodeError
json_loads(line) ==
    IF ~Matches(line, 1, KEY_PLATE) THEN <<>>
    ELSE LET p == ParseString(line, Len(KEY_PLATE) + 1) IN
    IF ~(p.ok /\ Matches(line, p.end, KEY_STATUS)) THEN <<>>
    ELSE LET s == ParseString(line, p.end + Len(KEY_STATUS)) IN
    IF ~(s.ok /\ Matches(line, s.end, KEY_NOTE)) THEN <<>>
    ELSE LET n == ParseString(line, s.end + Len(KEY_NOTE)) IN
    IF ~(n.ok /\ Matches(line, n.end, KEY_CHECKED_AT)) THEN <<>>
    ELSE LET c == ParseString(line, n.end + Len(KEY_CHECKED_AT)) IN
    IF ~(c.ok /\ Matches(line, c.end, CLOSE_OBJ) /\ c.end + Len(CLOSE_OBJ) - 1 = Len(line))
    THEN <<>>
    ELSE <<Record(p.val, s.val, n.val, c.val)>>

IsSpace(c) == c \in {" ", "\n", "\t", "\r"}

\* str.strip()
RECURSIVE LeadingSpaces(_, _)
LeadingSpaces(line, i) ==
    IF i > Len(line) \/ ~IsSpace(line[i]) THEN 0 ELSE 1 + LeadingSpaces(line, i + 1)
RECURSIVE TrailingSpaces(_, _)
TrailingSpaces(line, i) ==
    IF i < 1 \/ ~IsSpace(line[i]) THEN 0 ELSE 1 + TrailingSpaces(line, i - 1)
Strip(line) ==
    LET lead == LeadingSpaces(line, 1) IN
    IF lead = Len(line) THEN <<>>
    ELSE SubSeq(line, lead + 1, Len(line) - TrailingSpaces(line, Len(line)))

\* `for line in f`: the lines of the file, each with its terminator, the
\* last one without when the file does not end in "\n"
LineBreaks(f) == {i \in 1..Len(f) : f[i] = "\n"}
Lines(f) ==
    LET breaks == LineBreaks(f)
        starts == {1} \cup {i + 1 : i \in breaks}
        n == Cardinality(breaks) + (IF Len(f) \in breaks \/ Len(f) = 0 THEN 0 ELSE 1)
        StartOf(k) == CHOOSE i \in starts : Cardinality({j \in breaks : j < i}) = k - 1
        EndOf(k) == IF k <= Cardinality(breaks)
                    THEN CHOOSE i \in breaks : Cardinality({j \in breaks : j <= i}) = k
                    ELSE Len(f)
    IN [k \in 1..n |-> SubSeq(f, StartOf(k), EndOf(k))]

\* the rows load_results collects, oldest first: blank lines and lines
\* json.loads rejects are skipped
RECURSIVE RowsOf(_, _)
RowsOf(lines, k) ==
    IF k > Len(lines) THEN <<>>
    ELSE LET line == Strip(lines[k]) IN
         (IF line = <<>> THEN <<>> ELSE json_loads(line)) \o RowsOf(lines, k + 1)

\* rows[:limit] for any integer limit
Slice(rows, limit) ==
    IF limit >= 0 THEN Prefix(rows, limit)
    ELSE SubSeq(rows, 1, Max(Len(rows) + limit, 0))

\* load_results without rows.reverse()
load_results_unreversed(f, limit) ==
    LET rows == RowsOf(Lines(utf8_decode(f)), 1) IN
    IF limit # None /\ limit[1] # 0 THEN Slice(rows, limit[1]) ELSE rows

\* load_results(limit); limit is None or Some(n); a missing file reads as
\* the empty file.  This is what the call returns when the bytes of the
\* file decode; when UnicodeDecodeError(f), `for line in f` raises and the
\* call returns nothing.
load_results(f, limit) ==
    LET rows == Reverse(RowsOf(Lines(utf8_decode(f)), 1)) IN
    IF limit # None /\ limit[1] # 0 THEN Slice(rows, limit[1]) ELSE rows

(***************************************************************************)
(* check_plate: the text of the page, or the error marker followed by the  *)
(* exception's message when requests.get raises.                           *)
(***************************************************************************)
TIMED_OUT ==
    <<"s", "l", "o", "w">>
PAGE_OTHER ==
    <<"<", "h", "t", "m", "l", ">">>
PAGE_AVAILABLE ==
    <<"I", "s", " ", "A", "v", "a", "i", "l", "a", "b", "l", "e">>

Page(text) == [kind |-> "text", body |-> text]
Raised(msg) == [kind |-> "exception", body |-> msg]

\* check_plate that returns the exception's message without the marker
check_plate_unmarked(outcome) ==
    outcome.body

check_plate(outcome) ==
    IF outcome.kind = "exception" THEN ERROR_MARK \o <<" ">> \o outcome.body
    ELSE outcome.body

\* what requests.get does for a URL when any client may call: the site
\* answers with its rate-limit page, or the request fails
FetchOutcomes ==
    {Page(MAX_ATTEMPTS_MSG), Raised(TIMED_OUT)}

\* the stub of the scripted run: the first code is issued, the others get
\* some other page
StubFetch(plate) ==
    IF plate = generate_combinations[1] THEN {Page(ISSUED_MSG)}
    ELSE {Page(PAGE_OTHER), Page(PAGE_AVAILABLE)}

(***************************************************************************)
(* State.                                                                  *)
(***************************************************************************)
VARIABLES
    state,       \* the shared progress dictionary (written under state_lock)
    stop_event,  \* threading.Event: TRUE when set
    threads,     \* the bag of live runner_loop threads: position and locals
    file,        \* the characters of DATA_FILE
    appended,    \* history: the records save_result has written, in order
    mark,        \* history: Len(appended) at the last /start that found no loop alive
    client       \* environment: "any" requests and pages, or the scripted stub run

vars == <<state, stop_event, threads, file, appended, mark, client>>

total == Len(generate_combinations)

\* A thread that is about to execute runner_loop's first statement.  pc is
\* its position, idx, raw, status and note are its locals, delay is the
\* argument of its last time.sleep.  History: probed, the plates it has
\* fetched; cancelled, whether /stop set the flag while it was alive;
\* before, the snapshot as it was when the thread took state_lock.
SpawnedThread ==
    [pc |-> "init", idx |-> 0, raw |-> <<>>, status |-> <<>>, note |-> <<>>,
     delay |-> 0, probed |-> <<>>, cancelled |-> FALSE, before |-> <<>>]

Live == BagToSet(threads)
Spawn(th) == threads (+) SetToBag({th})
End(th) == threads (-) SetToBag({th})
Step(th, next) == (threads (-) SetToBag({th})) (+) SetToBag({next})

InitState ==
    [running |-> FALSE, last_plate |-> None, last_status |-> None,
     last_checked_at |-> None, queue_remaining |-> None]

Init ==
    /\ state = InitState
    /\ stop_event = FALSE
    /\ threads = EmptyBag
    /\ file = <<>>
    /\ appended = <<>>
    /\ mark = 0
    /\ client = "any"

(***************************************************************************)
(* Routes (a request with a valid token; _require_token rejects the others *)
(* before the handler's body).                                             *)
(***************************************************************************)
\* the message of the JSON body /start answers with
StartMessage == IF state.running THEN "Already running" ELSE "Started"

\* GET /start
Start ==
    /\ client \in {"any", "start_then_stop"}
    /\ client' = IF client = "any" THEN "any" ELSE "stop_next"
    /\ IF state.running
       THEN UNCHANGED <<state, stop_event, threads, file, appended, mark>>
       ELSE /\ BagCardinality(threads) < MaxThreads
            /\ Len(appended) + BagCardinality(threads) < MaxFile
            /\ stop_event' = FALSE
            /\ threads' = Spawn(SpawnedThread)
            /\ mark' = IF threads = EmptyBag THEN Len(appended) ELSE mark
            /\ UNCHANGED <<state, file, appended>>

\* the message of the JSON body /stop answers with
StopMessage == IF ~state.running THEN "Not running" ELSE "Stopping"

\* GET /stop
Stop ==
    /\ client \in {"any", "stop_next"}
    /\ client' = IF client = "any" THEN "any" ELSE "quiet"
    /\ stop_event' = IF ~state.running THEN stop_event ELSE TRUE
    /\ threads' = IF ~state.running THEN threads
                  ELSE BagOfAll(LAMBDA th : [th EXCEPT !.cancelled = TRUE], threads)
    /\ UNCHANGED <<state, file, appended, mark>>

(***************************************************************************)
(* runner_loop, one action per step between its blocking points.           *)
(***************************************************************************)
\* a runner_loop that resumes after the codes the snapshot counts as done
RunnerInitResume(th) ==
    LET done == IF state.queue_remaining = None THEN 0
                ELSE total - state.queue_remaining[1] IN
    /\ th.pc = "init"
    /\ state' = [state EXCEPT !.running = TRUE, !.queue_remaining = Some(total - done)]
    /\ threads' = Step(th, [th EXCEPT !.pc = "check", !.idx = done + 1])
    /\ UNCHANGED <<stop_event, file, appended, mark, client>>

\* combos = generate_combinations(); running = True; queue_remaining = total
RunnerInit(th) ==
    /\ th.pc = "init"
    /\ state' = [state EXCEPT !.running = TRUE, !.queue_remaining = Some(total)]
    /\ threads' = Step(th, [th EXCEPT !.pc = "check", !.idx = 1])
    /\ UNCHANGED <<stop_event, file, appended, mark, client>>

\* the position the for loop is at when the thread is at its head: the
\* first plate after the initialisation, the next plate after a sleep
AtHead(th) == th.pc = "check" \/ th.pc = "sleep"
HeadIdx(th) == IF th.pc = "sleep" THEN th.idx + 1 ELSE th.idx

\* (time.sleep returns and) the head of the for loop finds the sequence
\* exhausted or stop_event set (break): running = False and the thread ends
LoopExit(th) ==
    /\ AtHead(th)
    /\ HeadIdx(th) > total \/ stop_event
    /\ state' = [state EXCEPT !.running = FALSE]
    /\ threads' = End(th)
    /\ UNCHANGED <<stop_event, file, appended, mark, client>>

\* the bound of the model on the file: no new probe is begun once the
\* records written and the requests in flight reach MaxFile
FileCap == Len(appended) + Cardinality({u \in Live : u.pc = "fetch"}) < MaxFile

\* (time.sleep returns and) the head of the for loop enters the body with
\* plate = combos[idx]; requests.get is called
LoopCheck(th) ==
    /\ AtHead(th)
    /\ ~(HeadIdx(th) > total \/ stop_event)
    /\ threads' = Step(th, [th EXCEPT !.pc = "fetch", !.idx = HeadIdx(th),
                                      !.status = <<>>, !.note = <<>>, !.delay = 0,
                                      !.probed = Append(@, generate_combinations[HeadIdx(th)])])
    /\ UNCHANGED <<state, stop_event, file, appended, mark, client>>

\* what this thread's check_plate call can return
Fetched(th) ==
    IF client = "any" THEN FetchOutcomes ELSE StubFetch(generate_combinations[th.idx])

\* raw = check_plate(url); status, note = parse_status(raw);
\* save_result(plate, status, note), for a requests.get that ends in one
\* of the outcomes
ProbeWith(th, outcomes) ==
    /\ th.pc = "fetch"
    /\ \E outcome \in outcomes :
          LET raw == check_plate(outcome)
              parsed == parse_status(raw)
              plate == generate_combinations[th.idx]
          IN /\ file' = save_result(file, plate, parsed[1], parsed[2])
             /\ appended' = Append(appended, Record(plate, parsed[1], parsed[2], NowIso))
             /\ threads' = Step(th, [th EXCEPT !.pc = "update", !.raw = raw,
                                               !.status = parsed[1], !.note = parsed[2]])
    /\ UNCHANGED <<state, stop_event, mark, client>>

Probe(th) == ProbeWith(th, Fetched(th))

\* a runner_loop that catches the exception of save_result and carries on
\* with the update and the next code
ProbeSaveSwallowed(th) ==
    /\ th.pc = "fetch"
    /\ \E outcome \in Fetched(th) :
          LET raw == check_plate(outcome)
              parsed == parse_status(raw)
          IN threads' = Step(th, [th EXCEPT !.pc = "update", !.raw = raw,
                                            !.status = parsed[1], !.note = parsed[2]])
    /\ UNCHANGED <<state, stop_event, file, appended, mark, client>>

\* the same, but save_result raises (OSError from makedirs, open or write):
\* nothing is written, the exception leaves runner_loop and the thread ends
ProbeSaveFails(th) ==
    /\ th.pc = "fetch"
    /\ threads' = End(th)
    /\ UNCHANGED <<state, stop_event, file, appended, mark, client>>

\* runner_loop that sleeps SLEEP_SECONDS whatever the status
UpdateFlatPacing(th) ==
    /\ th.pc = "update"
    /\ state' = [state EXCEPT !.last_plate = Some(generate_combinations[th.idx]),
                              !.last_status = Some(th.status),
                              !.last_checked_at = Some(NowIso),
                              !.queue_remaining = Some(total - th.idx)]
    /\ threads' = Step(th, [th EXCEPT !.pc = "sleep", !.raw = <<>>, !.note = <<>>,
                                      !.delay = SLEEP_SECONDS])
    /\ UNCHANGED <<stop_event, file, appended, mark, client>>

\* the locked update of the snapshot, then the thread enters time.sleep
Update(th) ==
    /\ th.pc = "update"
    /\ state' = [state EXCEPT !.last_plate = Some(generate_combinations[th.idx]),
                              !.last_status = Some(th.status),
                              !.last_checked_at = Some(NowIso),
                              !.queue_remaining = Some(total - th.idx)]
    /\ threads' = Step(th, [th EXCEPT !.pc = "sleep", !.raw = <<>>, !.note = <<>>,
                                      !.delay = IF th.status = blocked
                                                THEN BLOCK_SLEEP ELSE SLEEP_SECONDS])
    /\ UNCHANGED <<stop_event, file, appended, mark, client>>

Next ==
    \/ Start
    \/ Stop
    \/ \E th \in Live : RunnerInit(th)
    \/ \E th \in Live : LoopExit(th)
    \/ \E th \in Live : FileCap /\ LoopCheck(th)
    \/ \E th \in Live : Probe(th)
    \/ \E th \in Live : ProbeSaveFails(th)
    \/ \E th \in Live : Update(th)

Spec == Init /\ [][Next]_vars

(***************************************************************************)
(* The scripted run: one client sends /start and then /stop, and the site  *)
(* is the stub.                                                            *)
(***************************************************************************)
\* The states with no loop alive and an empty store: the fresh process; a run
\* that was stopped before its first probe (the flag stays set); a run whose
\* first save_result raised (running stays True), stopped or not.
IdleEmptyStore ==
    {<<FALSE, InitState>>,
     <<TRUE, [InitState EXCEPT !.queue_remaining = Some(total)]>>,
     <<FALSE, [InitState EXCEPT !.running = TRUE, !.queue_remaining = Some(total)]>>,
     <<TRUE, [InitState EXCEPT !.running = TRUE, !.queue_remaining = Some(total)]>>}

ScenarioInit ==
    /\ \E e \in IdleEmptyStore : stop_event = e[1] /\ state = e[2]
    /\ threads = EmptyBag
    /\ file = <<>>
    /\ appended = <<>>
    /\ mark = 0
    /\ client = "start_then_stop"

\* the steps of the program; the single run of the script ends by itself,
\* so the file needs no bound here
ScenarioNext ==
    \/ Start
    \/ Stop
    \/ \E th \in Live : RunnerInit(th)
    \/ \E th \in Live : LoopExit(th)
    \/ \E th \in Live : LoopCheck(th)
    \/ \E th \in Live : Probe(th)
    \/ \E th \in Live : ProbeSaveFails(th)
    \/ \E th \in Live : Update(th)

ScenarioSpec == ScenarioInit /\ [][ScenarioNext]_vars

(***************************************************************************)
(* The store alone: any sequence of save_result calls on a new file.       *)
(***************************************************************************)
\* characters a note is made of: one of more than one byte, and those
\* json.dumps escapes
NoteChars == {E_ACUTE, "\"", "\\", "\n"}

RECURSIVE NoteCharsIn(_, _)
NoteCharsIn(rows, k) ==
    IF k > Len(rows) THEN 0 ELSE Len(rows[k].note) + NoteCharsIn(rows, k + 1)

StoreAppend ==
    /\ Len(appended) < MaxFile
    /\ \E status \in {unknown, error} :
       \E n \in 0..(MaxNoteChars - NoteCharsIn(appended, 1)) :
       \E note \in [1..n -> NoteChars] :
          /\ file' = save_result(file, generate_combinations[1], status, note)
          /\ appended' = Append(appended,
                                Record(generate_combinations[1], status, note, NowIso))
    /\ UNCHANGED <<state, stop_event, threads, mark, client>>

StoreSpec == Init /\ [][StoreAppend]_vars

(***************************************************************************)
(* The store while a line is being written: the bytes of save_result's     *)
(* write reach the file one after the other, and a reader may open the     *)
(* file between any two of them.  `appended` holds the records save_result *)
(* was called with, the last of them possibly still being written.         *)
(***************************************************************************)
\* the bytes of the file once every write has completed
RECURSIVE FileOf(_, _)
FileOf(rows, k) ==
    IF k > Len(rows) THEN <<>> ELSE LineOf(rows[k]) \o FileOf(rows, k + 1)

WritePending == Len(file) < Len(FileOf(appended, 1))

\* save_result is called: the record is serialised, no byte is out yet
WriteBegin ==
    /\ ~WritePending
    /\ Len(appended) < MaxTorn
    /\ \E n \in 0..(MaxNoteChars - NoteCharsIn(appended, 1)) :
       \E note \in [1..n -> {"a", E_ACUTE, "\""}] :
          appended' = Append(appended,
                             Record(generate_combinations[1], unknown, note, NowIso))
    /\ UNCHANGED <<state, stop_event, threads, file, mark, client>>

\* the next byte of the line reaches the file
WriteByte ==
    /\ WritePending
    /\ file' = SubSeq(FileOf(appended, 1), 1, Len(file) + 1)
    /\ UNCHANGED <<state, stop_event, threads, appended, mark, client>>

TornNext == WriteBegin \/ WriteByte

TornSpec == Init /\ [][TornNext]_vars

(***************************************************************************)
(* The snapshot under state_lock: the worker's update is four assignments  *)
(* inside `with state_lock:`, and /status and /results copy the dictionary *)
(* inside `with state_lock:` too.  The lock is held by the thread that is  *)
(* between two of the assignments; the other locked blocks of runner_loop  *)
(* wait for it.                                                            *)
(***************************************************************************)
InUpdate(th) == th.pc \in {"update1", "update2", "update3"}
state_lock == {th \in Live : InUpdate(th)}

\* with state_lock: state["last_plate"] = plate
WritePlate(th) ==
    /\ th.pc = "update"
    /\ state_lock = {}
    /\ state' = [state EXCEPT !.last_plate = Some(generate_combinations[th.idx])]
    /\ threads' = Step(th, [th EXCEPT !.pc = "update1", !.before = Some(state)])
    /\ UNCHANGED <<stop_event, file, appended, mark, client>>

\* state["last_status"] = status
WriteStatus(th) ==
    /\ th.pc = "update1"
    /\ state' = [state EXCEPT !.last_status = Some(th.status)]
    /\ threads' = Step(th, [th EXCEPT !.pc = "update2"])
    /\ UNCHANGED <<stop_event, file, appended, mark, client>>

\* state["last_checked_at"] = datetime.now().isoformat(timespec="seconds")
WriteCheckedAt(th) ==
    /\ th.pc = "update2"
    /\ state' = [state EXCEPT !.last_checked_at = Some(NowIso)]
    /\ threads' = Step(th, [th EXCEPT !.pc = "update3"])
    /\ UNCHANGED <<stop_event, file, appended, mark, client>>

\* state["queue_remaining"] = total - idx; the lock is released and the
\* thread enters time.sleep
WriteRemaining(th) ==
    /\ th.pc = "update3"
    /\ state' = [state EXCEPT !.queue_remaining = Some(total - th.idx)]
    /\ threads' = Step(th, [th EXCEPT !.pc = "sleep", !.raw = <<>>, !.note = <<>>,
                                      !.before = <<>>,
                                      !.delay = IF th.status = blocked
                                                THEN BLOCK_SLEEP ELSE SLEEP_SECONDS])
    /\ UNCHANGED <<stop_event, file, appended, mark, client>>

\* what GET /status answers with: jsonify(state)
StatusResponse == state

\* GET /status that copies the dictionary without taking state_lock
StatusUnlocked ==
    UNCHANGED vars

\* GET /status (and the snapshot part of GET /results): with state_lock
Status ==
    /\ state_lock = {}
    /\ UNCHANGED vars

SnapshotNext ==
    \/ Start
    \/ Stop
    \/ Status
    \/ \E th \in Live : state_lock = {} /\ RunnerInit(th)
    \/ \E th \in Live : state_lock = {} /\ LoopExit(th)
    \/ \E th \in Live : FileCap /\ LoopCheck(th)
    \/ \E th \in Live : Probe(th)
    \/ \E th \in Live : WritePlate(th)
    \/ \E th \in Live : WriteStatus(th)
    \/ \E th \in Live : WriteCheckedAt(th)
    \/ \E th \in Live : WriteRemaining(th)

SnapshotSpec == Init /\ [][SnapshotNext]_vars

(***************************************************************************)
(* One probe with any page: a loop has called requests.get for its first   *)
(* code and the site answers with any page made of the phrases             *)
(* parse_status looks for, or the request fails.                           *)
(***************************************************************************)
\* a text longer than the snippet once another piece follows
FILLER == [i \in 1..SNIPPET_LEN |-> "x"]

Chunks == {ERROR_MARK, MAX_ATTEMPTS_MSG, ISSUED_MSG, PAGE_AVAILABLE, <<"x">>, FILLER}

RECURSIVE Flatten(_, _)
Flatten(pieces, k) ==
    IF k > Len(pieces) THEN <<>> ELSE pieces[k] \o Flatten(pieces, k + 1)

PageTexts ==
    {Flatten(pieces, 1) : pieces \in UNION {[1..n -> Chunks] : n \in 0..MaxChunks}}

ParseOutcomes ==
    {Page(text) : text \in PageTexts} \cup {Raised(TIMED_OUT), Raised(ISSUED_MSG)}

\* the state after /start, the initialisation of runner_loop and the head
\* of the for loop: the request for the first code is in flight
ParseInit ==
    /\ state = [InitState EXCEPT !.running = TRUE, !.queue_remaining = Some(total)]
    /\ stop_event = FALSE
    /\ threads = SetToBag({[SpawnedThread EXCEPT !.pc = "fetch", !.idx = 1,
                                                 !.probed = <<generate_combinations[1]>>]})
    /\ file = <<>>
    /\ appended = <<>>
    /\ mark = 0
    /\ client = "any"

\* one probe with any of the pages, its update and sleep, and the head of
\* the loop after it; /stop may be called at any time
ParseNext ==
    \/ Stop
    \/ \E th \in Live : appended = <<>> /\ ProbeWith(th, ParseOutcomes)
    \/ \E th \in Live : Update(th)
    \/ \E th \in Live : LoopCheck(th)
    \/ \E th \in Live : LoopExit(th)

ParseSpec == ParseInit /\ [][ParseNext]_vars

(***************************************************************************)
(* Runs to the end: nobody calls /stop, no append fails, the site says     *)
(* issued for every plate, and the loops go through all the codes.  /start *)
(* is called while the file has fewer than MaxFile records.                *)
(***************************************************************************)
RunToEndNext ==
    \/ Start
    \/ \E th \in Live : RunnerInit(th)
    \/ \E th \in Live : LoopExit(th)
    \/ \E th \in Live : LoopCheck(th)
    \/ \E th \in Live : ProbeWith(th, {Page(ISSUED_MSG)})
    \/ \E th \in Live : Update(th)

RunToEndSpec == Init /\ [][RunToEndNext]_vars

(***************************************************************************)
(* Vocabulary of the properties.                                           *)
(***************************************************************************)
\* the records in the file, oldest first
Stored == Reverse(load_results(file, None))

\* the codes a run has finished processing (saved and published)
Processed(th) == IF th.pc = "sleep" THEN th.idx ELSE th.idx - 1

\* the plate order the specification fixes: every two-letter code over the
\* letters, sorted by first letter, then by second letter
LetterRank(c) == CHOOSE k \in 1..Len(UPPERCASE) : UPPERCASE[k] = c
LexBefore(a, b) ==
    \/ LetterRank(a[1]) < LetterRank(b[1])
    \/ LetterRank(a[1]) = LetterRank(b[1]) /\ LetterRank(a[2]) < LetterRank(b[2])
IsLexEnumeration(codes, ls) ==
    /\ Len(codes) = Len(ls) * Len(ls)
    /\ \A i \in 1..Len(codes) :
          /\ Len(codes[i]) = 2
          /\ \E a, b \in 1..Len(ls) : codes[i] = <<ls[a], ls[b]>>
    /\ \A i, j \in 1..Len(codes) : i < j => LexBefore(codes[i], codes[j])
IsPrefixOf(s, t) == Len(s) <= Len(t) /\ s = SubSeq(t, 1, Len(s))

(***************************************************************************)
(* Properties.                                                             *)
(***************************************************************************)
\* C1: single-flight -- at most one runner_loop thread is alive at any time.
C1_SingleFlight == BagCardinality(threads) <= 1

\* C2: running is true exactly when a runner_loop thread is alive.
C2_RunningIffActive == state.running <=> (threads # EmptyBag)

\* C3: a /start that arrives while the loop of an earlier /start is alive
\* answers "Already running" and changes neither the threads, nor the
\* cancellation flag, nor the snapshot.
C3_SecondStartNoOp ==
    [][(Start /\ threads # EmptyBag)
         => (StartMessage = "Already running" /\ UNCHANGED <<threads, stop_event, state>>)]_vars

\* C4: a /stop that arrives while no loop is alive answers "Not running" and
\* changes neither the snapshot, nor the cancellation flag, nor the store.
C4_StopWhenIdleNoOp ==
    [][(Stop /\ threads = EmptyBag)
         => (StopMessage = "Not running" /\ UNCHANGED <<state, stop_event, file>>)]_vars

\* C5: whenever a loop is alive, a /stop that arrives now sets the
\* cancellation flag (the step the eventual return to Idle rests on).
C5_StopSetsFlag ==
    (threads # EmptyBag) => ENABLED (Stop /\ stop_event' = TRUE)

\* C6: the scripted run (start from Idle with an empty store, then stop, the
\* stub serving "Plate is issued" for the first code) ends with exactly one
\* record in the store: the first code, status issued.
C6_ScenarioOneRecord ==
    (client = "quiet" /\ threads = EmptyBag /\ ~state.running)
        => Stored = <<Record(generate_combinations[1], issued, <<>>, NowIso)>>

\* C7: while a run has processed k >= 1 codes, the snapshot shows
\* queue_remaining = total - k and last_plate = the k-th generated code.
C7_ProgressInvariant ==
    \A th \in Live :
        (th.pc # "init" /\ Processed(th) >= 1)
            => /\ state.queue_remaining = Some(total - Processed(th))
               /\ state.last_plate = Some(generate_combinations[Processed(th)])

\* C8: the records appended since the last /start from Idle are a prefix of
\* the generator sequence, in generator order.
C8_RunIsPrefix ==
    LET since == SubSeq(Stored, mark + 1, Len(Stored)) IN
    IsPrefixOf([i \in 1..Len(since) |-> since[i].plate], generate_combinations)

\* the generator over the full alphabet: 676 codes, no code twice
FullKeyspace == Combinations(UPPERCASE)
FullKeyspaceIs676 ==
    /\ Len(FullKeyspace) = 676
    /\ Cardinality({FullKeyspace[i] : i \in 1..Len(FullKeyspace)}) = 676

\* C9: every run starts at index 0 -- whatever earlier runs did, the codes a
\* runner_loop has probed are the first codes of the one fixed sequence, the
\* two-letter codes in lexicographic order (676 unique codes for the 26
\* letters), and its initialisation resets queue_remaining to the full total.
C9_RunStartsAtIndexZero ==
    /\ [](/\ FullKeyspaceIs676
          /\ IsLexEnumeration(generate_combinations, letters)
          /\ \A th \in Live : IsPrefixOf(th.probed, generate_combinations))
    /\ [][\A th \in Live :
            RunnerInit(th) => state'.queue_remaining = Some(NumLetters * NumLetters)]_vars

\* a second run, begun from Idle after an earlier run processed two codes,
\* has reset queue_remaining and is probing the first code
C9_Witness ==
    /\ mark >= 2
    /\ state.last_plate = Some(generate_combinations[2])
    /\ state.queue_remaining = Some(total)
    /\ \E th \in Live : th.pc = "fetch" /\ th.probed = <<generate_combinations[1]>>
    /\ BagCardinality(threads) = 1

\* C10: round trip -- a scan without limit returns every record save_result
\* appended, once each, newest first.
C10_RoundTrip == load_results(file, None) = Reverse(appended)

\* two different records were appended, their notes holding characters that
\* json.dumps escapes, and the scan returns the second one first
C10_Witness ==
    /\ Len(appended) = 2
    /\ appended[1].note = <<"\"", "\\">>
    /\ appended[2].note = <<>>
    /\ appended[1].status # appended[2].status
    /\ load_results(file, None) = <<appended[2], appended[1]>>


\* C11: for every integer limit a client supplies, 0 included, and a store
\* of n records, load_results(limit) is the min(limit, n) most recent
\* records, newest first.
C11_LimitCaps ==
    \A limit \in 0..(MaxFile + 1) :
        load_results(file, Some(limit))
            = Prefix(Reverse(appended), Min(limit, Len(appended)))

\* C12: a reader that scans the file while a line is being written gets no
\* partial or corrupted record and does not fail: the read raises nothing
\* and returns, newest first, the records written in full, with or without
\* the record being written.
C12_NoPartialRecord ==
    /\ ~UnicodeDecodeError(file)
    /\ LET rows == load_results(file, None) IN
       \/ rows = Reverse(appended)
       \/ WritePending /\ rows = Reverse(SubSeq(appended, 1, Len(appended) - 1))

\* the snapshot as it stands once the update th is making is complete
Completed(th) ==
    [state EXCEPT !.last_plate = Some(generate_combinations[th.idx]),
                  !.last_status = Some(th.status),
                  !.last_checked_at = Some(NowIso),
                  !.queue_remaining = Some(total - th.idx)]

\* s is the snapshot as it stood after one complete update: while a thread
\* is between two assignments of its update, that is the snapshot before
\* the update began or the one the update ends with
WholeSnapshot(s) ==
    \A th \in Live : InUpdate(th) => (s = th.before[1] \/ s = Completed(th))

RuleStatus == <<error, blocked, issued, available, unknown>>
RuleMatches(k, text) ==
    CASE k = 1 -> StartsWith(text, ERROR_MARK)
      [] k = 2 -> Contains(text, MAX_ATTEMPTS_MSG)
      [] k = 3 -> Contains(text, ISSUED_MSG)
      [] k = 4 -> Contains(Lower(text), AVAILABLE_WORD)
      [] k = 5 -> TRUE
RuleNote(k, text) ==
    CASE k = 1 -> text
      [] k = 2 -> RATE_LIMITED
      [] k = 3 -> <<>>
      [] k = 4 -> <<>>
      [] k = 5 -> IF Len(text) <= SNIPPET_LEN THEN text ELSE SubSeq(text, 1, SNIPPET_LEN)
FirstRule(text) ==
    CHOOSE k \in 1..5 : RuleMatches(k, text) /\ \A j \in 1..(k - 1) : ~RuleMatches(j, text)

\* C14: parse_status is total and the first matching rule wins, in the order
\* error, blocked, issued, available, unknown: whatever the raw text, the
\* status is one of the five, it is the status of the earliest rule the
\* text matches, and the note is the raw text (marker and failure
\* description) for error, "rate-limited" for blocked, empty for issued and
\* available, and the first 200 characters for unknown.
C14_FirstMatchWins ==
    \A th \in Live : th.pc = "update" =>
        LET first == FirstRule(th.raw) IN
        /\ th.status \in {issued, available, blocked, error, unknown}
        /\ th.status = RuleStatus[first]
        /\ th.note = RuleNote(first, th.raw)
        /\ (th.raw = <<>> => th.status = unknown /\ th.note = <<>>)
        /\ appended[Len(appended)].status = th.status
        /\ appended[Len(appended)].note = th.note

\* a page that matches the blocked, issued and available rules at once has
\* been classified as blocked
C14_Witness ==
    \E th \in Live :
        /\ th.pc = "update"
        /\ th.raw = ISSUED_MSG \o PAGE_AVAILABLE \o MAX_ATTEMPTS_MSG
        /\ th.status = blocked
        /\ th.note = RATE_LIMITED

\* the step of th in which requests.get raises
FailedProbe(th) == ProbeWith(th, {o \in Fetched(th) : o.kind = "exception"})

\* C15: a fetch failure for a code never ends the run: it is recorded as
\* exactly one record with status error for that code (the note holds the
\* failure), the loop stays alive and publishes the code in the snapshot,
\* sleeps the normal interval and goes on to the next code unless it is
\* stopped or the codes are exhausted.
C15_FetchFailureAbsorbed ==
    /\ [][\A th \in Live : FailedProbe(th) =>
            /\ \E o \in Fetched(th) :
                  appended' = Append(appended,
                      Record(generate_combinations[th.idx], error,
                             ERROR_MARK \o <<" ">> \o o.body, NowIso))
            /\ \E nt \in BagToSet(threads') :
                  nt.pc = "update" /\ nt.idx = th.idx /\ nt.status = error]_vars
    /\ [][\A th \in Live : (Update(th) /\ th.status = error) =>
            /\ state'.last_plate = Some(generate_combinations[th.idx])
            /\ state'.last_status = Some(error)
            /\ state'.queue_remaining = Some(total - th.idx)
            /\ \E nt \in BagToSet(threads') :
                  nt.pc = "sleep" /\ nt.idx = th.idx /\ nt.delay = SLEEP_SECONDS]_vars
    /\ [][\A th \in Live : (th.pc = "sleep" /\ th.status = error) =>
            /\ LoopCheck(th) =>
                  \E nt \in BagToSet(threads') : nt.pc = "fetch" /\ nt.idx = th.idx + 1
            /\ LoopExit(th) => (stop_event \/ th.idx = total)]_vars

\* the first request failed; the record and the snapshot say error for the
\* first code and the loop is fetching the second code
C15_Witness ==
    /\ BagCardinality(threads) = 1
    /\ Len(appended) = 1
    /\ appended[1] = Record(generate_combinations[1], error,
                            ERROR_MARK \o <<" ">> \o TIMED_OUT, NowIso)
    /\ state.last_plate = Some(generate_combinations[1])
    /\ state.last_status = Some(error)
    /\ \E th \in Live : th.pc = "fetch" /\ th.idx = 2

\* C16: a failure to append is fatal to the run and not swallowed: the step
\* in which save_result raises ends the loop (it probes no further code),
\* leaves the snapshot as it was (last_plate and queue_remaining keep their
\* values) and writes nothing; and no loop ever publishes a code, or goes
\* on to a later code, without the record of that code having been written.
C16_AppendFailureFatal ==
    /\ [][\A th \in Live : (th.pc = "fetch" /\ threads' = End(th)) =>
            UNCHANGED <<state, file, appended>>]_vars
    /\ [][\A th \in Live : th.pc = "fetch" =>
            \/ threads' = End(th)
            \/ Len(appended') > Len(appended)
            \/ th \in BagToSet(threads')
            \/ \E nt \in BagToSet(threads') :
                  nt = [th EXCEPT !.cancelled = TRUE]]_vars
    /\ [](\A th \in Live : th.pc \in {"update", "sleep"} =>
            \E i \in 1..Len(appended) :
                /\ appended[i].plate = generate_combinations[th.idx]
                /\ appended[i].status = th.status)
    /\ [](\A th \in Live : \A j \in 1..(th.idx - 1) :
            \E i \in 1..Len(appended) : appended[i].plate = generate_combinations[j])

\* the append for the second code failed: no loop is left, the store holds
\* the first record only and the snapshot still shows the first code
C16_Witness ==
    /\ threads = EmptyBag
    /\ state.running
    /\ ~stop_event
    /\ Len(appended) = 1
    /\ state.last_plate = Some(generate_combinations[1])
    /\ state.queue_remaining = Some(total - 1)

\* C17: with no stop requested and no append failing, a run ends after it
\* has probed every code exactly once: when its loop leaves at the end of
\* the sequence the worker is Idle (running false), the snapshot shows
\* queue_remaining = 0 and the last code, and the records since the start
\* are the codes of the generator, each once.
C17_RunEndsWithFinalSnapshot ==
    [][\A th \in Live : (LoopExit(th) /\ HeadIdx(th) > total) =>
          /\ ~state'.running
          /\ threads' = EmptyBag
          /\ state'.queue_remaining = Some(0)
          /\ state'.last_plate = Some(generate_combinations[total])
          /\ [i \in 1..(Len(appended) - mark) |-> appended[mark + i].plate]
                = generate_combinations]_vars

\* the record of the code th has just processed
JustRecorded(th) ==
    CHOOSE r \in {appended[i] : i \in 1..Len(appended)} :
        r.plate = generate_combinations[th.idx]

\* C18: pacing: after every processed code the loop makes exactly one delay
\* before its next cancellation check, and the delay is the block interval
\* if and only if the record just written has status blocked; for issued,
\* available, error and unknown it is the normal interval.
C18_Pacing ==
    /\ [](\A th \in Live : th.pc = "sleep" =>
            /\ JustRecorded(th).status \in {issued, available, blocked, error, unknown}
            /\ th.delay = BLOCK_SLEEP <=> JustRecorded(th).status = blocked
            /\ th.delay = SLEEP_SECONDS <=> JustRecorded(th).status # blocked)
    /\ [][\A th \in Live : th.pc = "update" =>
            \/ \E nt \in BagToSet(threads') : nt.pc = "update" /\ nt.idx = th.idx
            \/ \E nt \in BagToSet(threads') :
                  nt.pc = "sleep" /\ nt.idx = th.idx /\ nt.delay > 0]_vars
    /\ [][\A th \in Live : (th.pc = "sleep" /\ threads' # threads) =>
            \/ LoopCheck(th)
            \/ LoopExit(th)
            \/ \E nt \in BagToSet(threads') : nt.pc = "sleep" /\ nt.idx = th.idx]_vars

\* a loop sleeps the block interval after a blocked record
C18_Witness ==
    \E th \in Live :
        /\ th.pc = "sleep"
        /\ th.delay = BLOCK_SLEEP
        /\ appended[Len(appended)].status = blocked
        /\ appended[Len(appended)].plate = generate_combinations[th.idx]

\* C19: cancellation is observed between probes: a loop that was alive when
\* /stop set the flag never begins another probe, whatever /start does in
\* the meantime: at its next check point it leaves, so it appends at most
\* the record of the probe that was in flight.
C19_CancelledLoopStops ==
    [][\A th \in Live : th.cancelled => ~LoopCheck(th)]_vars

\* C20: persist before publish: during a run the number of records appended
\* since its start equals the number of codes the snapshot counts as done
\* (total - queue_remaining) or exceeds it by exactly one, and the code and
\* status the snapshot shows have their record in the store.
C20_PersistBeforePublish ==
    /\ (\E th \in Live : th.pc # "init") =>
          LET written == Len(appended) - mark
              published == total - state.queue_remaining[1]
          IN written = published \/ written = published + 1
    /\ state.last_plate # None =>
          \E i \in 1..Len(appended) :
              /\ appended[i].plate = state.last_plate[1]
              /\ appended[i].status = state.last_status[1]
====
